---- MODULE Spec2Model ----
(***************************************************************************)
(* A model of the Google ADK Agent Starter Kit: the local web server's     *)
(* session endpoints (src/src/deployment/local.py), the agent wrapper's    *)
(* session handling (src/src/agents/base_agent.py) and the agent-type      *)
(* registry (src/src/registry.py).                                         *)
(***************************************************************************)
EXTENDS Integers, Sequences, FiniteSets, TLC

VARIABLES
    sessions,     \* the session service's store: (user_id, session_id) -> event list
    req,          \* the request the server handled last, with what the service did
    resp,         \* the response to that request
    registry,     \* _agent_registry, a dict in insertion order: <<[type, factory], ...>>
    regResult,    \* the outcome of the last registry call
    succeeded,    \* history: the (type, factory) pairs whose registration succeeded
    launch,       \* run_locally: its arguments, the starts attempted, the warnings
    built,        \* BaseAgent.__init__: the configuration and what it has created
    cli,          \* run_agent: its arguments, the inputs read and the lines printed
    ws,           \* websocket_endpoint: the connection, its messages and frames
    printed,      \* print_config: the key configured and the lines printed
    auth,         \* get_credentials and refresh_credentials: the last call
    handlers      \* the handlers in flight on the event loop, each at its await

vars == <<sessions, req, resp, registry, regResult, succeeded,
          launch, built, cli, ws, printed, auth, handlers>>

serverVars == <<sessions, req, resp>>
registryVars == <<registry, regResult, succeeded>>
\* the variables of the start-up, construction, command line and WebSocket
processVars == <<launch, built, cli, ws, printed, auth, handlers>>

-----------------------------------------------------------------------------
(* Bounds *)

\* the longest event list a session of the store holds before a request
MaxEvents == 2
\* the most events one run of the runner yields
MaxRun == 1
\* the most events the sessions of the store hold together
MaxStored == 3
\* the most starts of the server run_locally is followed through
MaxStarts == 3
\* the most turns of an interactive session of run_agent
MaxTurns == 2
\* the most messages received on one WebSocket connection
MaxMessages == 2
\* the most events agent.run returns for one WebSocket message
MaxWsEvents == 2
\* the most characters of a GOOGLE_API_KEY
MaxKeyLen == 6

-----------------------------------------------------------------------------
(* Values *)

\* Python's None, where a string is expected
None == "<None>"
\* reading the attribute raises AttributeError (the object has no such attribute)
NoAttr == "<AttributeError>"

UserIds == {"u1"}
SessionOrder == <<"s1", "s2">>
SessionIds == {SessionOrder[i] : i \in DOMAIN SessionOrder}
Keys == UserIds \X SessionIds

\* event.author: the user, the agent's name, a tool, or no author
Authors == {"user", "base_agent", None}
\* the text of a first part: a string, None (a part that is no text part),
\* or no text attribute at all
Texts == {"Hi"}
PartTexts == Texts \cup {None, NoAttr}
\* what event.get_function_calls() returns: function calls, by name
CallLists == {<<>>, <<"get_weather">>}

(* An event as get_session_history reads it.                               *)
(*   content: "raises" reading event.content raises, "none" it is None,    *)
(*            "ok" it is a content object                                  *)
(*   parts:   "raises" reading content.parts raises, "empty" it is None or *)
(*            [], "ok" it is a non-empty list                              *)
(*   text:    parts[0].text                                                *)
(*   calls, responses: get_function_calls(), len(get_function_responses()) *)
(*   lookup:  which of the two lookups raises, if any                      *)
EventRecords ==
    [author : Authors, content : {"raises", "none", "ok"},
     parts : {"raises", "empty", "ok"}, text : PartTexts,
     calls : CallLists, responses : {0, 1},
     lookup : {"ok", "calls_raise", "responses_raise"}]

\* One record per observable shape: what lies behind a missing or raising
\* attribute is fixed, and function calls and responses live in the parts.
Canonical(e) ==
    /\ e.content # "ok" => e.parts = "empty"
    /\ e.parts # "ok" =>
          /\ e.text = None
          /\ e.calls = <<>>
          /\ e.responses = 0
          /\ e.lookup = "ok"
    /\ e.text # NoAttr => e.lookup = "ok"
    /\ e.text \in Texts => e.responses = 0
    /\ e.lookup = "calls_raise" => e.calls = <<>> /\ e.responses = 0
    /\ e.lookup = "responses_raise" => e.calls = <<>> /\ e.responses = 0

Events == {e \in EventRecords : Canonical(e)}

RECURSIVE SeqsUpTo(_, _)
SeqsUpTo(S, n) ==
    IF n = 0 THEN {<<>>}
    ELSE LET shorter == SeqsUpTo(S, n - 1)
         IN shorter \cup {Append(s, x) : s \in {t \in shorter : Len(t) = n - 1}, x \in S}

\* nothing is started, constructed, run, connected or printed yet
NotStarted == [pc |-> "idle"]
ProcessIdle ==
    /\ launch = NotStarted
    /\ built = NotStarted
    /\ cli = NotStarted
    /\ ws = NotStarted
    /\ printed = NotStarted
    /\ auth = NotStarted
    /\ handlers = <<>>

-----------------------------------------------------------------------------
(* The agent-type registry *)

AgentTypes == {"base", "search", "custom"}
Factories == {"_create_base_agent", "factory_a", "factory_b"}

\* _agent_registry after the module is imported: register_agent_type("base",
\* _create_base_agent) has succeeded
ImportedRegistry == <<[type |-> "base", factory |-> "_create_base_agent"]>>
ImportedTypes == {<<"base", "_create_base_agent">>}
NoCall == [op |-> "none"]

\* agent_type in _agent_registry
Registered(reg, t) == \E i \in DOMAIN reg : reg[i].type = t
\* _agent_registry[agent_type]
FactoryOf(reg, t) == reg[CHOOSE i \in DOMAIN reg : reg[i].type = t].factory

\* Register with the duplicate check left out: the assignment replaces the
\* factory of a registered type.
Register_Overwrite(reg, t, f) ==
    IF Registered(reg, t)
    THEN [raised |-> "",
          registry |-> [i \in DOMAIN reg |->
                           IF reg[i].type = t THEN [type |-> t, factory |-> f]
                           ELSE reg[i]]]
    ELSE [raised |-> "", registry |-> Append(reg, [type |-> t, factory |-> f])]

\* Register with the assignment made before the duplicate check: the call
\* raises, but the factory is already replaced.
Register_AssignBeforeCheck(reg, t, f) ==
    IF Registered(reg, t)
    THEN [raised |-> "ValueError",
          registry |-> [i \in DOMAIN reg |->
                           IF reg[i].type = t THEN [type |-> t, factory |-> f]
                           ELSE reg[i]]]
    ELSE [raised |-> "", registry |-> Append(reg, [type |-> t, factory |-> f])]

\* register_agent_type: whether it raises, and the registry it leaves
Register(reg, t, f) ==
    IF Registered(reg, t)
    THEN [raised |-> "ValueError", registry |-> reg]
    ELSE [raised |-> "", registry |-> Append(reg, [type |-> t, factory |-> f])]

register_agent_type(t, f) ==
    LET r == Register(registry, t, f)
    IN /\ registry' = r.registry
       /\ regResult' = [op |-> "register", type |-> t, factory |-> f, raised |-> r.raised]
       /\ succeeded' = IF r.raised = "" THEN succeeded \cup {<<t, f>>} ELSE succeeded
       /\ UNCHANGED <<serverVars, processVars>>

\* GetFactory that falls back to the built-in factory for an unknown type
GetFactory_DefaultsToBuiltIn(reg, t) ==
    IF ~Registered(reg, t)
    THEN [raised |-> "", value |-> reg[1].factory]
    ELSE [raised |-> "", value |-> FactoryOf(reg, t)]

\* get_agent_factory: the factory, or ValueError
GetFactory(reg, t) ==
    IF ~Registered(reg, t)
    THEN [raised |-> "ValueError", value |-> None]
    ELSE [raised |-> "", value |-> FactoryOf(reg, t)]

get_agent_factory(t) ==
    /\ regResult' = [op |-> "get", type |-> t, raised |-> GetFactory(registry, t).raised,
                     value |-> GetFactory(registry, t).value]
    /\ UNCHANGED <<registry, succeeded, serverVars, processVars>>

\* the arguments of create_agent: the four named values and the extra
\* keyword arguments
CreateArgs ==
    [name : {None, "my_agent"}, model : {None}, description : {None},
     instruction : {None, "Be brief."}, kwargs : {{}, {"session_service"}}]

\* What a factory returns for the arguments it is called with.
\* _create_base_agent fills in the name, description and instruction that
\* are not given; any other factory builds its agent from the arguments as
\* they are.
FactoryResult(f, args) ==
    IF f = "_create_base_agent"
    THEN [factory |-> f,
          name |-> IF args.name \in {None, ""} THEN "base_agent" ELSE args.name,
          model |-> args.model,
          description |-> IF args.description \in {None, ""}
                          THEN "A generic base agent." ELSE args.description,
          instruction |-> IF args.instruction \in {None, ""}
                          THEN "I am a base agent." ELSE args.instruction,
          kwargs |-> args.kwargs]
    ELSE [factory |-> f, name |-> args.name, model |-> args.model,
          description |-> args.description, instruction |-> args.instruction,
          kwargs |-> args.kwargs]

\* CreateAgent that passes the four named values on and drops **kwargs
CreateAgent_DropsKwargs(reg, t, args) ==
    LET factory == GetFactory(reg, t)
        passed == [args EXCEPT !.kwargs = {}]
    IN IF factory.raised # ""
       THEN [raised |-> factory.raised, called |-> <<>>, returned |-> <<>>]
       ELSE [raised |-> "",
             called |-> <<[factory |-> factory.value, args |-> passed]>>,
             returned |-> <<FactoryResult(factory.value, passed)>>]

\* create_agent: the factory called, the arguments it is called with and
\* what create_agent returns
CreateAgent(reg, t, args) ==
    LET factory == GetFactory(reg, t)
    IN IF factory.raised # ""
       THEN [raised |-> factory.raised, called |-> <<>>, returned |-> <<>>]
       ELSE [raised |-> "",
             called |-> <<[factory |-> factory.value, args |-> args]>>,
             returned |-> <<FactoryResult(factory.value, args)>>]

create_agent(t, args) ==
    /\ regResult' = [op |-> "create", type |-> t, args |-> args,
                     raised |-> CreateAgent(registry, t, args).raised,
                     called |-> CreateAgent(registry, t, args).called,
                     returned |-> CreateAgent(registry, t, args).returned]
    /\ UNCHANGED <<registry, succeeded, serverVars, processVars>>

\* ListAgentTypes that leaves out the type registered at import
ListAgentTypes_WithoutBuiltIn(reg) == [i \in DOMAIN Tail(reg) |-> Tail(reg)[i].type]

\* list_agent_types: list(_agent_registry.keys()), in insertion order
ListAgentTypes(reg) == [i \in DOMAIN reg |-> reg[i].type]

list_agent_types ==
    /\ regResult' = [op |-> "list", value |-> ListAgentTypes(registry)]
    /\ UNCHANGED <<registry, succeeded, serverVars, processVars>>

RegistryInit ==
    /\ registry = ImportedRegistry
    /\ regResult = NoCall
    /\ succeeded = ImportedTypes
    /\ sessions = [k \in {} |-> <<>>]
    /\ req = [op |-> "none"]
    /\ resp = [status |-> 0, body |-> [x \in {} |-> ""], escaped |-> FALSE]
    /\ ProcessIdle

RegistryNext ==
    \/ \E t \in AgentTypes, f \in Factories : register_agent_type(t, f)
    \/ \E t \in AgentTypes : get_agent_factory(t)
    \/ \E t \in AgentTypes, args \in CreateArgs : create_agent(t, args)
    \/ list_agent_types

RegistrySpec == RegistryInit /\ [][RegistryNext]_vars

\* C8: register_agent_type(t, f) raises ValueError whenever t is already
\* registered, and the rejected call leaves the registry as it was, t still
\* mapped to the factory of its first successful registration.
C8_DuplicateRegistrationRejected ==
    /\ [][(/\ regResult'.op = "register"
           /\ <<registry, regResult>>' # <<registry, regResult>>
           /\ Registered(registry, regResult'.type))
             => /\ regResult'.raised = "ValueError"
                /\ registry' = registry]_vars
    /\ [](regResult.op = "register" /\ regResult.raised = "ValueError"
            => \E f \in Factories :
                  /\ <<regResult.type, f>> \in succeeded
                  /\ FactoryOf(registry, regResult.type) = f)

C8_Witness ==
    /\ regResult.op = "register"
    /\ regResult.raised = "ValueError"
    /\ regResult.type = "search"
    /\ regResult.factory = "factory_b"
    /\ Len(registry) = 3
    /\ FactoryOf(registry, "search") = "factory_a"

\* C9: list_agent_types() returns exactly the agent types whose registration
\* succeeded, each once, after any sequence of register calls.
C9_ListIsSucceededTypes ==
    regResult.op = "list" =>
        /\ {regResult.value[i] : i \in DOMAIN regResult.value}
              = {p[1] : p \in succeeded}
        /\ \A i, j \in DOMAIN regResult.value :
              regResult.value[i] = regResult.value[j] => i = j

C9_Witness ==
    /\ regResult.op = "list"
    /\ regResult.value = <<"base", "custom", "search">>

\* C10: the registry's operations never remove or replace an entry: once
\* register_agent_type(t, f) has succeeded, every get_agent_factory(t)
\* returns f.
C10_EntriesNeverRemoved ==
    /\ [][\A i \in DOMAIN registry :
             i \in DOMAIN registry' /\ registry'[i] = registry[i]]_vars
    /\ [](\A p \in succeeded :
             /\ Registered(registry, p[1])
             /\ (regResult.op = "get" /\ regResult.type = p[1])
                   => regResult.raised = "" /\ regResult.value = p[2])

C10_Witness ==
    /\ regResult.op = "get"
    /\ regResult.type = "custom"
    /\ regResult.value = "factory_b"
    /\ Len(registry) = 3
    /\ <<"custom", "factory_b">> \in succeeded

\* C11: get_agent_factory(t) and create_agent(t, ...) raise ValueError
\* whenever t is not registered; create_agent then calls no factory and
\* returns nothing, and the registry stays as it was.
C11_UnknownTypeRaises ==
    /\ [](regResult.op \in {"get", "create"} /\ ~Registered(registry, regResult.type)
            => /\ regResult.raised = "ValueError"
               /\ regResult.op = "create" =>
                     regResult.called = <<>> /\ regResult.returned = <<>>)
    /\ [][regResult'.op \in {"get", "create"} /\ regResult' # regResult
             => registry' = registry]_vars

C11_Witness ==
    /\ regResult.op = "create"
    /\ regResult.type = "search"
    /\ regResult.raised = "ValueError"
    /\ Registered(registry, "custom")
    /\ ~Registered(registry, "search")

\* C12: create_agent on a registered type calls the factory registered for
\* the type exactly once, with the name, model, description and instruction
\* given and every extra keyword argument, and returns what the factory
\* returns.
C12_CreateForwardsArguments ==
    (regResult.op = "create" /\ Registered(registry, regResult.type)) =>
        /\ regResult.raised = ""
        /\ Len(regResult.called) = 1
        /\ <<regResult.type, regResult.called[1].factory>> \in succeeded
        /\ regResult.called[1].args = regResult.args
        /\ regResult.returned
              = <<FactoryResult(regResult.called[1].factory, regResult.args)>>

C12_Witness ==
    /\ regResult.op = "create"
    /\ regResult.type = "custom"
    /\ Len(regResult.called) = 1
    /\ regResult.called[1].factory = "factory_a"
    /\ regResult.called[1].args.name = "my_agent"
    /\ regResult.called[1].args.kwargs = {"session_service"}
    /\ regResult.returned[1].name = "my_agent"

-----------------------------------------------------------------------------
(* run_locally: the start of the server and the retry on the next port *)

\* WEB_UI_PORT when the environment does not set it
DefaultPort == 8000

\* the highest port a socket can be bound to; run_locally computes port + 1
\* with no look at it
MaxPort == 65535

LaunchArgs ==
    [host : {"127.0.0.1", "0.0.0.0"}, port : {DefaultPort, 8080, MaxPort},
     log_level : {"info", "debug"}, reload : BOOLEAN]

\* the exceptions uvicorn.run is taken to raise for a port a socket can be
\* bound to
StartErrors ==
    [type : {"OSError", "RuntimeError"},
     msg : {"Address already in use",
            "Only one usage of each socket address is normally permitted",
            "Some other OS error"}]

\* the exceptions of a start on port: above MaxPort the bind raises
\* OverflowError, which is no OSError
StartErrorsAt(port) ==
    IF port <= MaxPort THEN StartErrors
    ELSE {[type |-> "OverflowError", msg |-> "bind(): port must be 0-65535."]}

\* "address already in use" in str(e).lower() or "only one usage of each
\* socket address" in str(e).lower(), over the messages of StartErrors
NamesAddressInUse(msg) ==
    msg \in {"Address already in use",
             "Only one usage of each socket address is normally permitted"}

\* HandleStartFailure that retries without passing log_level and reload on
HandleStartFailure_DefaultsOnRetry(call, err) ==
    IF err.type # "OSError" THEN [retry |-> FALSE, warnings |-> <<>>, next |-> call]
    ELSE IF NamesAddressInUse(err.msg)
    THEN [retry |-> TRUE,
          warnings |-> <<[port |-> call.port, new_port |-> call.port + 1]>>,
          next |-> [host |-> call.host, port |-> call.port + 1,
                    log_level |-> "info", reload |-> FALSE]]
    ELSE [retry |-> FALSE, warnings |-> <<>>, next |-> call]

\* HandleStartFailure that retries on every OSError
HandleStartFailure_RetriesAnyOSError(call, err) ==
    IF err.type # "OSError" THEN [retry |-> FALSE, warnings |-> <<>>, next |-> call]
    ELSE [retry |-> TRUE,
          warnings |-> <<[port |-> call.port, new_port |-> call.port + 1]>>,
          next |-> [call EXCEPT !.port = call.port + 1]]

\* What run_locally does when uvicorn.run(app, host, port, log_level, reload)
\* raises err: only an OSError is caught; one that names the address in use
\* is answered with a warning and run_locally(agent, host, port + 1,
\* log_level, reload), any other is raised again.
HandleStartFailure(call, err) ==
    IF err.type # "OSError" THEN [retry |-> FALSE, warnings |-> <<>>, next |-> call]
    ELSE IF NamesAddressInUse(err.msg)
    THEN [retry |-> TRUE,
          warnings |-> <<[port |-> call.port, new_port |-> call.port + 1]>>,
          next |-> [call EXCEPT !.port = call.port + 1]]
    ELSE [retry |-> FALSE, warnings |-> <<>>, next |-> call]

\* the call of run_locally: the first uvicorn.run
run_locally(args) ==
    /\ launch.pc = "idle"
    /\ launch' = [pc |-> "starting", args |-> args, attempts |-> <<args>>,
                  failures |-> <<>>, warnings |-> <<>>, error |-> <<>>]
    /\ UNCHANGED <<serverVars, registryVars, built, cli, ws, printed, auth, handlers>>

\* uvicorn.run returns: the server has run and stopped, run_locally returns
start_returns ==
    /\ launch.pc = "starting"
    /\ launch.attempts[Len(launch.attempts)].port <= MaxPort
    /\ launch' = [launch EXCEPT !.pc = "returned"]
    /\ UNCHANGED <<serverVars, registryVars, built, cli, ws, printed, auth, handlers>>

\* uvicorn.run raises err
start_raises(err) ==
    /\ launch.pc = "starting"
    /\ err \in StartErrorsAt(launch.attempts[Len(launch.attempts)].port)
    /\ LET call == launch.attempts[Len(launch.attempts)]
           h == HandleStartFailure(call, err)
       IN /\ h.retry => Len(launch.attempts) < MaxStarts
          /\ launch' =
                IF h.retry
                THEN [launch EXCEPT !.failures = Append(@, err),
                                    !.warnings = @ \o h.warnings,
                                    !.attempts = Append(@, h.next)]
                ELSE [launch EXCEPT !.pc = "raised",
                                    !.failures = Append(@, err),
                                    !.warnings = @ \o h.warnings,
                                    !.error = <<err>>]
    /\ UNCHANGED <<serverVars, registryVars, built, cli, ws, printed, auth, handlers>>

LaunchInit ==
    /\ sessions = [k \in {} |-> <<>>]
    /\ req = [op |-> "none"]
    /\ resp = [status |-> 0, body |-> [x \in {} |-> ""], escaped |-> FALSE]
    /\ registry = ImportedRegistry
    /\ regResult = NoCall
    /\ succeeded = ImportedTypes
    /\ ProcessIdle

LaunchNext ==
    \/ \E args \in LaunchArgs : run_locally(args)
    \/ start_returns
    \/ \E err \in StartErrors \cup StartErrorsAt(MaxPort + 1) : start_raises(err)

LaunchSpec == LaunchInit /\ [][LaunchNext]_vars

\* the failed starts that were an address-in-use OSError
InUseFailure(err) == err.type = "OSError" /\ NamesAddressInUse(err.msg)
Collisions ==
    Cardinality({i \in DOMAIN launch.failures : InUseFailure(launch.failures[i])})

\* C13: every start that fails with an address-in-use OSError on port q is
\* followed by one warning naming q and q + 1 and one new start on q + 1
\* with the same host, log level and reload flag: after k collisions the
\* starts were made on port, port + 1, ..., port + k, one each, in order.
C13_RetryOnNextPort ==
    launch.pc # "idle" =>
        /\ Len(launch.attempts) = Collisions + 1
        /\ Len(launch.warnings) = Collisions
        /\ \A i \in DOMAIN launch.attempts :
              launch.attempts[i] = [launch.args EXCEPT !.port = launch.args.port + (i - 1)]
        /\ \A i \in DOMAIN launch.warnings :
              launch.warnings[i] = [port |-> launch.args.port + (i - 1),
                                    new_port |-> launch.args.port + i]

C13_Witness ==
    /\ launch.pc = "starting"
    /\ launch.args.port = 8000
    /\ launch.args.log_level = "debug"
    /\ launch.args.reload
    /\ Collisions = 2
    /\ launch.attempts[3].port = 8002
    /\ launch.warnings[2] = [port |-> 8001, new_port |-> 8002]

\* C14: an OSError of a start that is no address-in-use failure is raised
\* again to the caller of run_locally as it is, with no warning for it and
\* no further start, on the first start or after any number of retries.
C14_OtherOSErrorPropagates ==
    launch.pc # "idle" =>
        \A i \in DOMAIN launch.failures :
            (launch.failures[i].type = "OSError" /\ ~NamesAddressInUse(launch.failures[i].msg))
                => /\ i = Len(launch.failures)
                   /\ launch.pc = "raised"
                   /\ launch.error = <<launch.failures[i]>>
                   /\ Len(launch.attempts) = i
                   /\ Len(launch.warnings) = i - 1

C14_Witness ==
    /\ launch.pc = "raised"
    /\ Len(launch.attempts) = 3
    /\ Len(launch.warnings) = 2
    /\ launch.error = <<[type |-> "OSError", msg |-> "Some other OS error"]>>

\* C30: run_locally starts the server on no port above 65535: when the
\* collisions reach the highest port it stops and reports the failure
\* instead of going on to the next number.
C30_NoStartAbovePortRange ==
    launch.pc # "idle" =>
        \A i \in DOMAIN launch.attempts : launch.attempts[i].port <= MaxPort

-----------------------------------------------------------------------------
(* BaseAgent.__init__ and validate_config *)

DEFAULT_MODEL == "gemini-2.0-flash"

\* the settings config.py reads from the environment
Configs ==
    [DEV_MODE : BOOLEAN,
     USE_VERTEX_AI : BOOLEAN,
     GOOGLE_API_KEY : {None, "", "AIzaSyKey"},
     GOOGLE_CLOUD_PROJECT : {None, "my-project"},
     GOOGLE_CLOUD_REGION : {"", "us-central1"}]

\* not x of Python for an optional string
Falsy(x) == x = None \/ x = ""

validate_config(cfg) ==
    IF cfg.USE_VERTEX_AI
    THEN IF Falsy(cfg.GOOGLE_CLOUD_PROJECT)
         THEN "GOOGLE_CLOUD_PROJECT is required when using Vertex AI"
         ELSE IF Falsy(cfg.GOOGLE_CLOUD_REGION)
         THEN "GOOGLE_CLOUD_REGION is required when using Vertex AI"
         ELSE None
    ELSE IF Falsy(cfg.GOOGLE_API_KEY)
         THEN "GOOGLE_API_KEY is required when not using Vertex AI"
         ELSE None

InitArgs ==
    [name : {"agent_a", "agent_b"},
     model : {"", "gemini-pro"},
     session_service : {None, "given_service"},
     app_name : {None, "my_app"}]

\* _validate_model
ValidateModel(model) == IF Falsy(model) THEN DEFAULT_MODEL ELSE model

\* the part of __init__ after the validation of the configuration: the
\* objects it creates, in order, and the fields of the agent
Construct(args) ==
    [created |-> <<"LlmAgent">>
                 \o (IF Falsy(args.session_service)
                     THEN <<"InMemorySessionService">> ELSE <<>>)
                 \o <<"Runner">>,
     agent |-> <<[name |-> args.name,
                  model |-> ValidateModel(args.model),
                  app_name |-> IF Falsy(args.app_name) THEN args.name ELSE args.app_name,
                  llm_agent |-> args.name \o "_llm"]>>]

\* BaseAgentInit that validates the configuration whatever DEV_MODE is
BaseAgentInit_AlwaysValidates(cfg, args) ==
    LET error == validate_config(cfg) IN
    IF ~Falsy(error)
    THEN [validations |-> 1, raised |-> "ValueError",
          message |-> "Invalid configuration: " \o error,
          created |-> <<>>, agent |-> <<>>]
    ELSE [validations |-> 1, raised |-> "", message |-> "",
          created |-> Construct(args).created, agent |-> Construct(args).agent]

\* BaseAgentInit that validates the configuration after the construction
BaseAgentInit_ValidatesLast(cfg, args) ==
    LET error == IF cfg.DEV_MODE THEN None ELSE validate_config(cfg) IN
    IF ~Falsy(error)
    THEN [validations |-> 1, raised |-> "ValueError",
          message |-> "Invalid configuration: " \o error,
          created |-> Construct(args).created, agent |-> <<>>]
    ELSE [validations |-> IF cfg.DEV_MODE THEN 0 ELSE 1, raised |-> "", message |-> "",
          created |-> Construct(args).created, agent |-> Construct(args).agent]

\* BaseAgent.__init__ under the configuration cfg: the number of calls of
\* validate_config, the exception and its message, the objects created
BaseAgentInit(cfg, args) ==
    IF cfg.DEV_MODE
    THEN [validations |-> 0, raised |-> "", message |-> "",
          created |-> Construct(args).created, agent |-> Construct(args).agent]
    ELSE LET error == validate_config(cfg) IN
         IF ~Falsy(error)
         THEN [validations |-> 1, raised |-> "ValueError",
               message |-> "Invalid configuration: " \o error,
               created |-> <<>>, agent |-> <<>>]
         ELSE [validations |-> 1, raised |-> "", message |-> "",
               created |-> Construct(args).created, agent |-> Construct(args).agent]

\* BaseAgent(name, model, ..., session_service, app_name) is constructed
construct_agent(cfg, args) ==
    /\ built' = [pc |-> "done", config |-> cfg, args |-> args,
                 result |-> BaseAgentInit(cfg, args)]
    /\ UNCHANGED <<serverVars, registryVars, launch, cli, ws, printed, auth, handlers>>

AgentInit == LaunchInit

AgentNext == \E cfg \in Configs : \E args \in InitArgs : construct_agent(cfg, args)

AgentSpec == AgentInit /\ [][AgentNext]_vars

\* the messages of a failed construction that name GOOGLE_API_KEY
MentionsApiKey(message) ==
    message = "Invalid configuration: GOOGLE_API_KEY is required when not using Vertex AI"

\* C15: with DEV_MODE true the construction of a BaseAgent does not call
\* validate_config and succeeds, also with no API key, project or region.
C15_DevModeSkipsValidation ==
    (built.pc = "done" /\ built.config.DEV_MODE) =>
        /\ built.result.validations = 0
        /\ built.result.raised = ""
        /\ Len(built.result.agent) = 1
        /\ built.result.created[Len(built.result.created)] = "Runner"

C15_Witness ==
    /\ built.pc = "done"
    /\ built.config.DEV_MODE
    /\ ~built.config.USE_VERTEX_AI
    /\ built.config.GOOGLE_API_KEY = None
    /\ built.config.GOOGLE_CLOUD_PROJECT = None
    /\ built.config.GOOGLE_CLOUD_REGION = ""
    /\ built.result.raised = ""
    /\ built.result.agent[1].name = "agent_a"

\* C16 as stated: with DEV_MODE false and no API key the construction
\* raises ValueError with a message naming GOOGLE_API_KEY before an LLM
\* agent, a session service or a runner is created.
C16_NoKeyAlwaysRaises ==
    (built.pc = "done" /\ ~built.config.DEV_MODE /\ Falsy(built.config.GOOGLE_API_KEY)) =>
        /\ built.result.raised = "ValueError"
        /\ MentionsApiKey(built.result.message)
        /\ built.result.created = <<>>

\* C16: with DEV_MODE false, Vertex AI not in use and no API key the
\* construction raises ValueError with a message naming GOOGLE_API_KEY
\* before an LLM agent, a session service or a runner is created.
C16_NoKeyRaisesWithoutVertex ==
    (/\ built.pc = "done"
     /\ ~built.config.DEV_MODE
     /\ ~built.config.USE_VERTEX_AI
     /\ Falsy(built.config.GOOGLE_API_KEY)) =>
        /\ built.result.raised = "ValueError"
        /\ built.result.validations = 1
        /\ MentionsApiKey(built.result.message)
        /\ built.result.created = <<>>
        /\ built.result.agent = <<>>

C16_Witness ==
    /\ built.pc = "done"
    /\ ~built.config.DEV_MODE
    /\ ~built.config.USE_VERTEX_AI
    /\ built.config.GOOGLE_API_KEY = None
    /\ built.result.raised = "ValueError"
    /\ built.result.created = <<>>

-----------------------------------------------------------------------------
(* run_agent: the single query and the interactive loop of the CLI *)

\* the lines typed at the prompt, and query.lower() over them
Typed == {"hello", "EXIT", "quit"}
Lower(line) == IF line = "EXIT" THEN "exit" ELSE line
ExitWords == {"exit", "quit", "bye", "goodbye"}

\* what the call of the agent does: it returns a response, raises an
\* exception of class Exception, or is interrupted from the keyboard
\* (KeyboardInterrupt is no subclass of Exception)
AgentOutcomes ==
    [kind : {"returns"}, class : {""}, value : {"Hello!"}]
    \cup [kind : {"raises"}, class : {"Exception", "ValueError"},
          value : {"Search Error", "API down"}]
    \cup [kind : {"interrupted"}, class : {"KeyboardInterrupt"}, value : {""}]

\* the session ids str(uuid.uuid4()) may give
SessionUuids == {"uuid-a", "uuid-b"}

\* the call made for a query: agent.search when the agent has it,
\* agent.run_and_get_response otherwise; sid is the id of the interactive
\* session, None in the single query
AgentCall(hasSearch, sid, query) ==
    IF hasSearch
    THEN [method |-> "search", query |-> query, session_id |-> sid]
    ELSE [method |-> "run_and_get_response", query |-> query,
          session_id |-> IF sid = None THEN "session" ELSE sid]

\* IsExit that compares the line as it was typed
IsExit_CaseSensitive(line) == line \in ExitWords

\* query.lower() in ["exit", "quit", "bye", "goodbye"]
IsExit(line) == Lower(line) \in ExitWords

\* the values of the query argument
QueryArgs == {None, "", "hello"}

\* Mode that looks at the query first
Mode_QueryFirst(web, interactive, query) ==
    IF query # None /\ query # "" THEN "query"
    ELSE IF web THEN "web"
    ELSE IF interactive THEN "interactive"
    ELSE "none"

\* the branch of `if web: ... elif interactive: ... elif query: ... else:`
Mode(web, interactive, query) ==
    IF web THEN "web"
    ELSE IF interactive THEN "interactive"
    ELSE IF query # None /\ query # "" THEN "query"
    ELSE "none"

\* AgentTurn with no try around the call of the agent
AgentTurn_Unguarded(outcome) ==
    IF outcome.kind = "returns"
    THEN [caught |-> TRUE, logged |-> <<>>, response |-> <<outcome.value>>]
    ELSE [caught |-> FALSE, logged |-> <<>>, response |-> <<>>]

\* The try/except Exception around the call of the agent: the response to
\* show and the error logged, or the exception that is not caught.
AgentTurn(outcome) ==
    IF outcome.kind = "returns"
    THEN [caught |-> TRUE, logged |-> <<>>, response |-> <<outcome.value>>]
    ELSE IF outcome.kind = "raises"
    THEN [caught |-> TRUE,
          logged |-> <<"Error running agent: " \o outcome.value>>,
          response |-> <<"Error: " \o outcome.value>>]
    ELSE [caught |-> FALSE, logged |-> <<>>, response |-> <<>>]

Turn(call, outcome) ==
    [call |-> call, outcome |-> outcome,
     logged |-> AgentTurn(outcome).logged, shown |-> AgentTurn(outcome).response]

NoOutcome == [kind |-> "returns", class |-> "", value |-> "Hello!"]

\* run_agent after create_agent has returned the agent
Created(web, interactive, query, hasSearch) ==
    [pc |-> "done", web |-> web, interactive |-> interactive, query |-> query,
     mode |-> Mode(web, interactive, query), hasSearch |-> hasSearch,
     created |-> 1, served |-> <<>>, hint |-> FALSE, session_id |-> None,
     inputs |-> <<>>, turns |-> <<>>, error |-> "", farewell |-> FALSE]

\* run_agent(agent_type, query, interactive, web, ...) up to the first
\* prompt of the interactive loop, or to its end in the other modes.
\* known: create_agent finds the agent type; sid: the uuid4 drawn.
run_agent(known, web, interactive, query, hasSearch, sid, outcome) ==
    /\ cli.pc = "idle"
    /\ LET start == Created(web, interactive, query, hasSearch) IN
       /\ (known /\ start.mode = "query") \/ outcome = NoOutcome
       /\ (known /\ start.mode = "interactive") \/ sid = "uuid-a"
       /\ cli' =
            IF ~known
            THEN [start EXCEPT !.pc = "raised", !.error = "ValueError"]
            ELSE IF start.mode = "web"
            THEN [start EXCEPT !.served = <<"run_locally">>]
            ELSE IF start.mode = "interactive"
            THEN [start EXCEPT !.pc = "prompt", !.session_id = sid]
            ELSE IF start.mode = "query"
            THEN [start EXCEPT
                    !.pc = IF AgentTurn(outcome).caught THEN "done" ELSE "raised",
                    !.turns = <<Turn(AgentCall(hasSearch, None, query), outcome)>>,
                    !.error = IF AgentTurn(outcome).caught THEN "" ELSE outcome.class]
            ELSE [start EXCEPT !.hint = TRUE]
    /\ UNCHANGED <<serverVars, registryVars, launch, built, ws, printed, auth, handlers>>

\* one pass of the loop: input() returns line
input_line(line, outcome) ==
    /\ cli.pc = "prompt"
    /\ IF IsExit(line)
       THEN /\ outcome = NoOutcome
            /\ cli' = [cli EXCEPT !.pc = "done", !.farewell = TRUE,
                                  !.inputs = Append(@, line)]
       ELSE /\ Len(cli.turns) < MaxTurns
            /\ cli' = [cli EXCEPT
                 !.inputs = Append(@, line),
                 !.turns = Append(@, Turn(AgentCall(cli.hasSearch, cli.session_id, line), outcome)),
                 !.pc = IF AgentTurn(outcome).caught THEN "prompt" ELSE "raised",
                 !.error = IF AgentTurn(outcome).caught THEN "" ELSE outcome.class]
    /\ UNCHANGED <<serverVars, registryVars, launch, built, ws, printed, auth, handlers>>

\* input() raises at the end of the input: nothing in the loop catches it
input_eof ==
    /\ cli.pc = "prompt"
    /\ cli' = [cli EXCEPT !.pc = "raised", !.error = "EOFError"]
    /\ UNCHANGED <<serverVars, registryVars, launch, built, ws, printed, auth, handlers>>

CliInit == LaunchInit

CliNext ==
    \/ \E known \in BOOLEAN, web \in BOOLEAN, interactive \in BOOLEAN,
          query \in QueryArgs, hasSearch \in BOOLEAN, sid \in SessionUuids,
          outcome \in AgentOutcomes :
            run_agent(known, web, interactive, query, hasSearch, sid, outcome)
    \/ \E line \in Typed, outcome \in AgentOutcomes : input_line(line, outcome)
    \/ input_eof

CliSpec == CliInit /\ [][CliNext]_vars

FailedTurns ==
    IF cli.pc = "idle" THEN {}
    ELSE {i \in DOMAIN cli.turns : cli.turns[i].outcome.kind = "raises"}

\* C17: an exception the call of the agent raises, in the single query or
\* in any turn of the interactive loop, is logged as an error and shown as
\* 'Error: <message>', and run_agent goes on: the single query returns, the
\* interactive loop prompts again, however many turns failed before.
C17_AgentErrorsShownAndLoopGoesOn ==
    /\ [](\A i \in FailedTurns :
            /\ cli.turns[i].shown = <<"Error: " \o cli.turns[i].outcome.value>>
            /\ cli.turns[i].logged = <<"Error running agent: " \o cli.turns[i].outcome.value>>
            /\ cli.error \notin {"Exception", "ValueError"})
    /\ [][(/\ cli'.pc # "idle"
           /\ cli'.turns # <<>>
           /\ (cli.pc = "idle" \/ cli'.turns # cli.turns)
           /\ cli'.turns[Len(cli'.turns)].outcome.kind = "raises")
            => cli'.pc = IF cli'.mode = "interactive" THEN "prompt" ELSE "done"]_vars

C17_Witness ==
    /\ cli.pc = "prompt"
    /\ Len(cli.turns) = 2
    /\ cli.turns[1].outcome.kind = "raises"
    /\ cli.turns[2].outcome.kind = "raises"
    /\ cli.turns[2].shown = <<"Error: API down">>

\* the lines read at the prompt so far that end the session
ExitInputs ==
    {i \in DOMAIN cli.inputs : Lower(cli.inputs[i]) \in {"exit", "quit", "bye", "goodbye"}}

\* C26: the interactive mode draws one session id before the first prompt
\* and passes it to the agent in every turn; the loop ends, with no call of
\* the agent for that line, at the first line that is exit, quit, bye or
\* goodbye in any case, and at no other line.
C26_OneSessionUntilExitWord ==
    /\ []((cli.pc # "idle" /\ cli.mode = "interactive" /\ cli.error # "ValueError") =>
            /\ cli.session_id \in SessionUuids
            /\ \A i \in DOMAIN cli.turns : cli.turns[i].call.session_id = cli.session_id
            /\ cli.turns = [i \in 1..Len(cli.turns) |->
                              [cli.turns[i] EXCEPT !.call.query = cli.inputs[i]]]
            /\ cli.pc = "prompt" => ExitInputs = {} /\ Len(cli.turns) = Len(cli.inputs)
            /\ cli.pc = "done" =>
                  /\ ExitInputs = {Len(cli.inputs)}
                  /\ Len(cli.turns) = Len(cli.inputs) - 1
            /\ cli.pc = "raised" => ExitInputs = {})
    /\ [][(cli.pc # "idle" /\ cli'.pc # "idle") => cli'.session_id = cli.session_id]_vars

C26_Witness ==
    /\ cli.pc = "done"
    /\ cli.mode = "interactive"
    /\ cli.session_id = "uuid-b"
    /\ cli.inputs = <<"hello", "hello", "EXIT">>
    /\ Len(cli.turns) = 2
    /\ cli.turns[2].call.session_id = "uuid-b"

\* C29: run_agent creates the agent once and then runs one mode: the web
\* server when web is set, whatever query and interactive are, with no
\* query sent to the agent; else the interactive loop when interactive is
\* set; else the single query when there is one; else it prints the usage
\* hint, with no call of the agent and no start of the server.
C29_OneModeByPrecedence ==
    (cli.pc # "idle" /\ cli.error # "ValueError") =>
        /\ cli.created = 1
        /\ cli.web => /\ cli.served = <<"run_locally">>
                      /\ cli.turns = <<>> /\ cli.inputs = <<>> /\ ~cli.hint
        /\ (~cli.web /\ cli.interactive) =>
              /\ cli.served = <<>> /\ ~cli.hint
              /\ cli.session_id # None
              /\ \A i \in DOMAIN cli.turns : cli.turns[i].call.session_id = cli.session_id
        /\ (~cli.web /\ ~cli.interactive /\ cli.query \notin {None, ""}) =>
              /\ cli.served = <<>> /\ ~cli.hint /\ cli.inputs = <<>>
              /\ Len(cli.turns) = 1
              /\ cli.turns[1].call.query = cli.query
        /\ (~cli.web /\ ~cli.interactive /\ cli.query \in {None, ""}) =>
              /\ cli.hint
              /\ cli.served = <<>> /\ cli.turns = <<>> /\ cli.inputs = <<>>

C29_Witness ==
    /\ cli.pc = "done"
    /\ cli.web /\ cli.interactive /\ cli.query = "hello"
    /\ cli.served = <<"run_locally">>
    /\ cli.turns = <<>>

-----------------------------------------------------------------------------
(* websocket_endpoint: the receive-process-send loop *)

\* The events agent.run returns, as the loop reads them: is_final_response(),
\* whether content and content.parts are there, and parts[0].text (a string,
\* or None for a part that carries a function call).
WsEvents ==
    {e \in [final : BOOLEAN, content : {"none", "ok"}, parts : {"empty", "ok"},
            text : {"Hi", None}] :
        /\ e.content = "none" => e.parts = "empty"
        /\ e.parts = "empty" => e.text = None}

WsEventLists == SeqsUpTo(WsEvents, MaxWsEvents)

\* EventFrames that sends a frame for a final response only
EventFrames_FinalOnly(e) ==
    IF e.final /\ e.content = "ok" /\ e.parts = "ok"
    THEN <<[type |-> "final", text |-> e.text]>>
    ELSE <<>>

\* the body of `for event in events`: the frames sent for one event
EventFrames(e) ==
    IF e.final /\ e.content = "ok" /\ e.parts = "ok"
    THEN <<[type |-> "final", text |-> e.text]>>
    ELSE IF e.content = "ok" /\ e.parts = "ok"
    THEN <<[type |-> "partial", text |-> e.text]>>
    ELSE <<>>

\* OnDisconnect with no except WebSocketDisconnect
OnDisconnect_Propagates(w) ==
    [w EXCEPT !.pc = "failed", !.error = "WebSocketDisconnect", !.disconnected = TRUE]

\* except WebSocketDisconnect: the handler logs and returns
OnDisconnect(w) ==
    [w EXCEPT !.pc = "returned", !.disconnected = TRUE]

\* the connection is opened: websocket.accept(), then the first receive_text
ws_connect(sessionExists) ==
    /\ ws.pc = "idle"
    /\ ws' = [pc |-> "receiving", accepts |-> 1, received |-> 0, runs |-> 0,
              events |-> <<>>, handled |-> 0, frames |-> <<>>, sent |-> 0,
              session |-> sessionExists, creates |-> 0,
              disconnected |-> FALSE, error |-> ""]
    /\ UNCHANGED <<serverVars, registryVars, launch, built, cli, printed, auth, handlers>>

\* receive_text returns a message: the session is created when it is not
\* there, and agent.run returns events or raises
ws_receive(runRaises, events) ==
    /\ ws.pc = "receiving"
    /\ ws.received < MaxMessages
    /\ runRaises => events = <<>>
    /\ ws' = [ws EXCEPT
                !.received = @ + 1,
                !.session = TRUE,
                !.creates = IF ws.session THEN @ ELSE @ + 1,
                !.runs = IF runRaises THEN @ ELSE @ + 1,
                !.events = events,
                !.handled = 0,
                !.frames = <<>>,
                !.pc = IF runRaises THEN "failed"
                       ELSE IF events = <<>> THEN "receiving" ELSE "sending",
                !.error = IF runRaises THEN "Exception" ELSE ""]
    /\ UNCHANGED <<serverVars, registryVars, launch, built, cli, printed, auth, handlers>>

\* one pass of `for event in events`
ws_send ==
    /\ ws.pc = "sending"
    /\ LET e == ws.events[ws.handled + 1] IN
       ws' = [ws EXCEPT
                !.handled = @ + 1,
                !.frames = @ \o EventFrames(e),
                !.sent = @ + Len(EventFrames(e)),
                !.pc = IF ws.handled + 1 = Len(ws.events) THEN "receiving" ELSE "sending"]
    /\ UNCHANGED <<serverVars, registryVars, launch, built, cli, printed, auth, handlers>>

\* receive_text raises WebSocketDisconnect
ws_disconnect ==
    /\ ws.pc = "receiving"
    /\ ws' = OnDisconnect(ws)
    /\ UNCHANGED <<serverVars, registryVars, launch, built, cli, printed, auth, handlers>>

WsInit == LaunchInit

WsNext ==
    \/ \E sessionExists \in BOOLEAN : ws_connect(sessionExists)
    \/ \E events \in WsEventLists : ws_receive(FALSE, events)
    \/ ws_receive(TRUE, <<>>)
    \/ ws_send
    \/ ws_disconnect

WsSpec == WsInit /\ [][WsNext]_vars

HasParts(e) == e.content = "ok" /\ e.parts = "ok"

\* the frames the events es are to be answered with, in order
RECURSIVE SpecifiedFrames(_)
SpecifiedFrames(es) ==
    IF es = <<>> THEN <<>>
    ELSE LET e == Head(es) IN
         (CASE e.final /\ HasParts(e) -> <<[type |-> "final", text |-> e.text]>>
            [] ~e.final /\ HasParts(e) -> <<[type |-> "partial", text |-> e.text]>>
            [] OTHER -> <<>>)
         \o SpecifiedFrames(Tail(es))

\* C18: the frames sent for a message are, in the order of the events of
\* agent.run, a 'final' frame with the first part's text for a final
\* response with content parts, a 'partial' frame with it for another event
\* with content parts, and nothing for an event without content parts; no
\* frame of another type is sent.
C18_FramesFollowEvents ==
    ws.pc \in {"receiving", "sending", "returned"} =>
        /\ ws.frames = SpecifiedFrames(SubSeq(ws.events, 1, ws.handled))
        /\ ws.pc # "sending" => ws.handled = Len(ws.events)
        /\ \A i \in DOMAIN ws.frames : ws.frames[i].type \in {"final", "partial"}

C18_Witness ==
    /\ ws.pc = "receiving"
    /\ ws.events = <<[final |-> FALSE, content |-> "ok", parts |-> "ok", text |-> "Hi"],
                     [final |-> TRUE, content |-> "ok", parts |-> "ok", text |-> "Hi"]>>
    /\ ws.frames = <<[type |-> "partial", text |-> "Hi"], [type |-> "final", text |-> "Hi"]>>

\* C19: the connection is accepted once; agent.run is called once for each
\* message received, and a message is received only when every event of the
\* message before it has been handled; on WebSocketDisconnect the handler
\* returns normally, with no run of the agent and no frame after it.
C19_ReceiveProcessSendLoop ==
    /\ [](ws.pc # "idle" =>
            /\ ws.accepts = 1
            /\ ws.runs = IF ws.error = "Exception" THEN ws.received - 1 ELSE ws.received
            /\ ws.disconnected => ws.pc = "returned" /\ ws.error = "")
    /\ [][(ws.pc # "idle" /\ ws'.received # ws.received)
            => /\ ws.pc = "receiving"
               /\ ws.handled = Len(ws.events)
               /\ ws'.received = ws.received + 1]_vars
    /\ [][(ws.pc # "idle" /\ ws'.disconnected)
            => /\ ws'.runs = ws.runs
               /\ ws'.sent = ws.sent
               /\ ws'.frames = ws.frames]_vars

C19_Witness ==
    /\ ws.pc = "returned"
    /\ ws.disconnected
    /\ ws.received = 2
    /\ ws.runs = 2
    /\ ws.sent = 2

-----------------------------------------------------------------------------
(* print_config: the masking of GOOGLE_API_KEY *)

\* GOOGLE_API_KEY is None when the variable is not set, and a sequence of
\* characters otherwise (the empty string is <<>>).
KeyChars == {"a", "b"}
ApiKeys ==
    {[isNone |-> TRUE, chars |-> <<>>]}
    \cup [isNone : {FALSE}, chars : SeqsUpTo(KeyChars, MaxKeyLen)]

\* the number of characters kept at each end of the key
MaskedEnd == 5

\* key[:5] and key[-5:]
FirstChars(key) == SubSeq(key, 1, IF Len(key) < MaskedEnd THEN Len(key) ELSE MaskedEnd)
LastChars(key) ==
    SubSeq(key, IF Len(key) < MaskedEnd THEN 1 ELSE Len(key) - MaskedEnd + 1, Len(key))

\* f"{key[:5]}...{key[-5:]}"
Masked(key) == FirstChars(key) \o <<".", ".", ".">> \o LastChars(key)

\* the characters printed after "  google_api_key: ": the masked form of a
\* non-empty key, the value itself (None or the empty string) otherwise
PrintedKey(key) ==
    IF key.isNone THEN <<"N", "o", "n", "e">>
    ELSE IF key.chars = <<>> THEN <<>>
    ELSE Masked(key.chars)

\* print_config(): the heading and one line for each setting of get_config,
\* of which google_api_key is the first
print_config(key) ==
    /\ printed' = [pc |-> "done", key |-> key,
                   heading |-> "Current Configuration:",
                   lines |-> <<[name |-> "google_api_key", value |-> PrintedKey(key)]>>]
    /\ UNCHANGED <<serverVars, registryVars, launch, built, cli, ws, auth, handlers>>

ConfigInit == LaunchInit

ConfigNext == \E key \in ApiKeys : print_config(key)

ConfigSpec == ConfigInit /\ [][ConfigNext]_vars

\* the characters t occur in the characters s, one after the other
Occurs(t, s) ==
    \E i \in 0..(Len(s) - Len(t)) : SubSeq(s, i + 1, i + Len(t)) = t

\* C20: the full value of a non-empty GOOGLE_API_KEY is never printed: the
\* line of google_api_key shows the first five characters, '...' and the
\* last five characters, and the key does not occur in it; with no key set
\* the line is 'google_api_key: None'.
C20_KeyNeverPrinted ==
    printed.pc = "done" =>
        LET shown == printed.lines[1].value IN
        IF printed.key.isNone THEN shown = <<"N", "o", "n", "e">>
        ELSE printed.key.chars # <<>> =>
                /\ shown = Masked(printed.key.chars)
                /\ ~Occurs(printed.key.chars, shown)

-----------------------------------------------------------------------------
(* get_credentials and refresh_credentials (src/src/utils/auth.py) *)

\* A credentials file as get_credentials meets it: the path is not given
\* (None), is the empty string, names no file on disk, names a file that
\* from_service_account_file raises on, or names one it loads.
FileStates == {"unset", "empty", "missing", "unloadable", "loadable"}

\* `path and os.path.exists(path)`
Usable(file) == file \in {"unloadable", "loadable"}

DefaultScopes == <<"https://www.googleapis.com/auth/cloud-platform">>
ScopeArgs == {<<>>, <<"https://www.googleapis.com/auth/bigquery">>}

\* one source tried: its load returns credentials or raises
TryFile(source, file) ==
    IF ~Usable(file) THEN [tried |-> <<>>, warnings |-> <<>>, loaded |-> FALSE]
    ELSE IF file = "loadable"
    THEN [tried |-> <<source>>, warnings |-> <<>>, loaded |-> TRUE]
    ELSE [tried |-> <<source>>, warnings |-> <<source>>, loaded |-> FALSE]

TryDefault(adcLoads) ==
    IF adcLoads
    THEN [tried |-> <<"application_default">>, warnings |-> <<>>, loaded |-> TRUE]
    ELSE [tried |-> <<"application_default">>,
          warnings |-> <<"application_default">>, loaded |-> FALSE]

Credentials(source, scopes) ==
    <<[source |-> source, scopes |-> IF scopes = <<>> THEN DefaultScopes ELSE scopes]>>

\* GetCredentials that looks at GOOGLE_APPLICATION_CREDENTIALS first
GetCredentials_EnvironmentFirst(scopes, given, env, adcLoads) ==
    LET b == TryFile("GOOGLE_APPLICATION_CREDENTIALS", env)
        a == TryFile("service_account_file", given)
        c == TryDefault(adcLoads)
    IN IF b.loaded
       THEN [tried |-> b.tried, warnings |-> b.warnings, raised |-> FALSE,
             returned |-> Credentials("GOOGLE_APPLICATION_CREDENTIALS", scopes)]
       ELSE IF a.loaded
       THEN [tried |-> b.tried \o a.tried, warnings |-> b.warnings \o a.warnings,
             raised |-> FALSE,
             returned |-> Credentials("service_account_file", scopes)]
       ELSE [tried |-> b.tried \o a.tried \o c.tried,
             warnings |-> b.warnings \o a.warnings \o c.warnings
                          \o (IF c.loaded THEN <<>> ELSE <<"none">>),
             raised |-> FALSE,
             returned |-> IF c.loaded THEN Credentials("application_default", scopes)
                          ELSE <<>>]

\* get_credentials(scopes, service_account_file): the sources tried in
\* order, the warnings logged, and the credentials returned (<<>> is None)
GetCredentials(scopes, given, env, adcLoads) ==
    LET a == TryFile("service_account_file", given)
        b == TryFile("GOOGLE_APPLICATION_CREDENTIALS", env)
        c == TryDefault(adcLoads)
    IN IF a.loaded
       THEN [tried |-> a.tried, warnings |-> a.warnings, raised |-> FALSE,
             returned |-> Credentials("service_account_file", scopes)]
       ELSE IF b.loaded
       THEN [tried |-> a.tried \o b.tried, warnings |-> a.warnings \o b.warnings,
             raised |-> FALSE,
             returned |-> Credentials("GOOGLE_APPLICATION_CREDENTIALS", scopes)]
       ELSE [tried |-> a.tried \o b.tried \o c.tried,
             warnings |-> a.warnings \o b.warnings \o c.warnings
                          \o (IF c.loaded THEN <<>> ELSE <<"none">>),
             raised |-> FALSE,
             returned |-> IF c.loaded THEN Credentials("application_default", scopes)
                          ELSE <<>>]

get_credentials(scopes, given, env, adcLoads) ==
    /\ auth' = [pc |-> "done", op |-> "get_credentials", scopes |-> scopes,
                given |-> given, env |-> env, adcLoads |-> adcLoads,
                result |-> GetCredentials(scopes, given, env, adcLoads)]
    /\ UNCHANGED <<serverVars, registryVars, launch, built, cli, ws, printed, handlers>>

\* refresh_credentials(credentials): the calls of credentials.refresh and
\* the value returned
RefreshCredentials(valid, refreshRaises) ==
    IF ~valid
    THEN IF refreshRaises
         THEN [refreshes |-> 1, raised |-> FALSE, returned |-> FALSE]
         ELSE [refreshes |-> 1, raised |-> FALSE, returned |-> TRUE]
    ELSE [refreshes |-> 0, raised |-> FALSE, returned |-> FALSE]

refresh_credentials(valid, refreshRaises) ==
    /\ auth.pc = "done"
    /\ auth.op = "get_credentials"
    /\ auth.result.returned # <<>>
    /\ auth' = [pc |-> "done", op |-> "refresh_credentials",
                credentials |-> auth.result.returned[1],
                valid |-> valid, refreshRaises |-> refreshRaises,
                result |-> RefreshCredentials(valid, refreshRaises)]
    /\ UNCHANGED <<serverVars, registryVars, launch, built, cli, ws, printed, handlers>>

AuthInit == LaunchInit

AuthNext ==
    \/ \E scopes \in ScopeArgs, given \in FileStates, env \in FileStates,
          adcLoads \in BOOLEAN : get_credentials(scopes, given, env, adcLoads)
    \/ \E valid \in BOOLEAN, refreshRaises \in BOOLEAN :
          refresh_credentials(valid, refreshRaises)

AuthSpec == AuthInit /\ [][AuthNext]_vars

GotCredentials == auth.pc = "done" /\ auth.op = "get_credentials"

\* the sources in their order, each with whether it is usable and loads
SourceOrder == <<"service_account_file", "GOOGLE_APPLICATION_CREDENTIALS",
                 "application_default">>
SourceLoads ==
    <<auth.given = "loadable", auth.env = "loadable", auth.adcLoads>>
FirstLoading ==
    {i \in 1..3 : SourceLoads[i] /\ \A j \in 1..(i - 1) : ~SourceLoads[j]}

\* C21: get_credentials tries the service-account file given, then the file
\* of GOOGLE_APPLICATION_CREDENTIALS, then the application default
\* credentials; it returns the credentials of the first source that loads,
\* goes to a later source only when every earlier one is unset, missing or
\* failed to load, never raises, and returns None exactly when every source
\* it tried failed.
C21_CredentialSourcesInOrder ==
    GotCredentials =>
        LET r == auth.result IN
        /\ ~r.raised
        /\ \E n \in 0..3 :
              r.tried = SelectSeq(SubSeq(SourceOrder, 1, n),
                          LAMBDA src : \/ src = "application_default"
                                       \/ src = "service_account_file" /\ Usable(auth.given)
                                       \/ src = "GOOGLE_APPLICATION_CREDENTIALS" /\ Usable(auth.env))
        /\ \A i \in FirstLoading :
              /\ r.returned # <<>>
              /\ r.returned[1].source = SourceOrder[i]
              /\ r.tried # <<>> /\ r.tried[Len(r.tried)] = SourceOrder[i]
        /\ (r.returned = <<>>) <=> (FirstLoading = {})
        /\ r.returned = <<>> => Len(r.warnings) = Len(r.tried) + 1

C21_Witness ==
    /\ GotCredentials
    /\ auth.given = "unloadable"
    /\ auth.env = "missing"
    /\ auth.adcLoads
    /\ auth.result.tried = <<"service_account_file", "application_default">>
    /\ auth.result.returned[1].source = "application_default"

\* C22: refresh_credentials returns True for credentials that are valid,
\* without a call of refresh; True when credentials that are not valid are
\* refreshed, with one call of refresh; and False only when the refresh
\* raises, the exception being swallowed.
C22_RefreshReturnsTrueUnlessRefreshFails ==
    (auth.pc = "done" /\ auth.op = "refresh_credentials") =>
        /\ ~auth.result.raised
        /\ auth.valid => auth.result.returned /\ auth.result.refreshes = 0
        /\ (~auth.valid /\ ~auth.refreshRaises) =>
              auth.result.returned /\ auth.result.refreshes = 1
        /\ ~auth.result.returned => (~auth.valid /\ auth.refreshRaises)

-----------------------------------------------------------------------------
(* get_session_history: the extraction of {sender, text} records *)

\* EventSender that keeps the author as the sender
EventSender_KeepAuthor(e) ==
    IF e.author # None /\ e.author # "" THEN e.author ELSE "unknown"

\* sender = event.author if event.author else 'unknown'; anything but 'user'
\* becomes 'agent'
EventSender(e) ==
    LET sender == IF e.author # None /\ e.author # "" THEN e.author ELSE "unknown"
    IN IF sender \notin {"user"} THEN "agent" ELSE sender

\* The fallback of the except AttributeError block.
FunctionPlaceholder(e) ==
    IF e.lookup = "calls_raise" THEN [raised |-> TRUE, text |-> None]
    ELSE IF e.calls # <<>>
    THEN [raised |-> FALSE, text |-> "[Function Call: " \o e.calls[1] \o "]"]
    ELSE IF e.lookup = "responses_raise" THEN [raised |-> TRUE, text |-> None]
    ELSE IF e.responses > 0 THEN [raised |-> FALSE, text |-> "[Function Response]"]
    ELSE [raised |-> FALSE, text |-> None]

\* EventText without the try around the text access: the AttributeError
\* leaves the loop body
EventText_UnguardedText(e) ==
    IF e.content = "raises" THEN [raised |-> TRUE, text |-> None]
    ELSE IF e.content = "none" THEN [raised |-> FALSE, text |-> None]
    ELSE IF e.parts = "raises" THEN [raised |-> TRUE, text |-> None]
    ELSE IF e.parts = "empty" THEN [raised |-> FALSE, text |-> None]
    ELSE IF e.text # NoAttr THEN [raised |-> FALSE, text |-> e.text]
    ELSE [raised |-> TRUE, text |-> None]

\* EventText with the whole extraction guarded: any failure leaves the event
\* without a text
EventText_AllGuarded(e) ==
    IF e.content = "raises" THEN [raised |-> FALSE, text |-> None]
    ELSE IF e.content = "none" THEN [raised |-> FALSE, text |-> None]
    ELSE IF e.parts = "raises" THEN [raised |-> FALSE, text |-> None]
    ELSE IF e.parts = "empty" THEN [raised |-> FALSE, text |-> None]
    ELSE IF e.text # NoAttr THEN [raised |-> FALSE, text |-> e.text]
    ELSE [raised |-> FALSE,
          text |-> IF FunctionPlaceholder(e).raised THEN None
                   ELSE FunctionPlaceholder(e).text]

\* The text of one event: raised says an exception left the loop body.
EventText(e) ==
    IF e.content = "raises" THEN [raised |-> TRUE, text |-> None]
    ELSE IF e.content = "none" THEN [raised |-> FALSE, text |-> None]
    ELSE IF e.parts = "raises" THEN [raised |-> TRUE, text |-> None]
    ELSE IF e.parts = "empty" THEN [raised |-> FALSE, text |-> None]
    ELSE IF e.text # NoAttr THEN [raised |-> FALSE, text |-> e.text]
    ELSE FunctionPlaceholder(e)

\* ExtractHistory that puts each record at the front of the history
RECURSIVE ExtractHistory_NewestFirst(_)
ExtractHistory_NewestFirst(events) ==
    IF events = <<>> THEN [raised |-> FALSE, history |-> <<>>]
    ELSE LET before == ExtractHistory_NewestFirst(SubSeq(events, 1, Len(events) - 1))
             event == events[Len(events)]
             t == EventText(event)
         IN IF before.raised \/ t.raised THEN [raised |-> TRUE, history |-> <<>>]
            ELSE IF t.text # None
            THEN [raised |-> FALSE,
                  history |-> <<[sender |-> EventSender(event), text |-> t.text]>>
                                 \o before.history]
            ELSE before

\* The loop over session.events: the history built so far, or raised.
RECURSIVE ExtractHistory(_)
ExtractHistory(events) ==
    IF events = <<>> THEN [raised |-> FALSE, history |-> <<>>]
    ELSE LET before == ExtractHistory(SubSeq(events, 1, Len(events) - 1))
             event == events[Len(events)]
             t == EventText(event)
         IN IF before.raised \/ t.raised THEN [raised |-> TRUE, history |-> <<>>]
            ELSE IF t.text # None
            THEN [raised |-> FALSE,
                  history |-> Append(before.history,
                                     [sender |-> EventSender(event), text |-> t.text])]
            ELSE before

NoRequest == [op |-> "none"]
NoResponse == [status |-> 0, body |-> [x \in {} |-> ""], escaped |-> FALSE]

JSONResponse(status, content) == [status |-> status, body |-> content, escaped |-> FALSE]

\* HistoryResponse without the check for a missing session: no session reads
\* as no events
HistoryResponse_MissingAsEmpty(store, key, serviceRaises) ==
    IF serviceRaises
    THEN JSONResponse(500, [error |-> "Failed to get session history"])
    ELSE IF key \notin DOMAIN store
    THEN JSONResponse(200, [history |-> <<>>])
    ELSE LET h == ExtractHistory(store[key])
         IN IF h.raised
            THEN JSONResponse(500, [error |-> "Failed to get session history"])
            ELSE JSONResponse(200, [history |-> h.history])

\* The response of GET /api/sessions/{user_id}/{session_id}/history.
HistoryResponse(store, key, serviceRaises) ==
    IF serviceRaises
    THEN JSONResponse(500, [error |-> "Failed to get session history"])
    ELSE IF key \notin DOMAIN store
    THEN JSONResponse(404, [error |-> "Session not found"])
    ELSE LET h == ExtractHistory(store[key])
         IN IF h.raised
            THEN JSONResponse(500, [error |-> "Failed to get session history"])
            ELSE JSONResponse(200, [history |-> h.history])

get_session_history(key, serviceRaises) ==
    /\ req' = [op |-> "history", key |-> key, serviceRaises |-> serviceRaises]
    /\ resp' = HistoryResponse(sessions, key, serviceRaises)
    /\ UNCHANGED <<sessions, registryVars, processVars>>

-----------------------------------------------------------------------------
(* The history endpoint over a session service that already holds sessions *)

EmptyStore == [k \in {} |-> <<>>]

HistInit ==
    /\ sessions \in {EmptyStore} \cup
          {[k \in {key} |-> evs] : key \in Keys, evs \in SeqsUpTo(Events, MaxEvents)}
    /\ req = NoRequest
    /\ resp = NoResponse
    /\ registry = ImportedRegistry
    /\ regResult = NoCall
    /\ succeeded = ImportedTypes
    /\ ProcessIdle

HistNext ==
    \E key \in Keys, serviceRaises \in BOOLEAN : get_session_history(key, serviceRaises)

HistSpec == HistInit /\ [][HistNext]_vars

-----------------------------------------------------------------------------
(* list_user_sessions: GET /api/sessions/{user_id} *)

\* what session_service.list_sessions gives: it raises, or returns None, a
\* list of items, a ('sessions', list) pair, or an object of another shape
ListShapes == {"raises", "none", "list", "pair", "other"}

\* The items the service lists for a user, in the service's order: the id of
\* each session, NoAttr for an item that carries no string id.
ListedItems(store, user, invalid) ==
    LET ids == SelectSeq(SessionOrder, LAMBDA sid : <<user, sid>> \in DOMAIN store)
    IN [i \in DOMAIN ids |-> IF ids[i] \in invalid THEN NoAttr ELSE ids[i]]

\* ListResponse that reads a plain list only
ListResponse_ListOnly(shape, items) ==
    IF shape = "raises" THEN JSONResponse(500, [error |-> "Failed to list sessions"])
    ELSE LET sessions_list_to_process ==
                 IF shape = "list" THEN items ELSE <<>>
         IN JSONResponse(200,
                [sessions |-> SelectSeq(sessions_list_to_process,
                                        LAMBDA item : item # NoAttr)])

ListResponse(shape, items) ==
    IF shape = "raises" THEN JSONResponse(500, [error |-> "Failed to list sessions"])
    ELSE LET sessions_list_to_process ==
                 IF shape \in {"pair", "list"} THEN items ELSE <<>>
         IN JSONResponse(200,
                [sessions |-> SelectSeq(sessions_list_to_process,
                                        LAMBDA item : item # NoAttr)])

list_user_sessions(user, shape, invalid) ==
    /\ req' = [op |-> "list", user |-> user, serviceRaises |-> shape = "raises",
               shape |-> shape, items |-> ListedItems(sessions, user, invalid)]
    /\ resp' = ListResponse(shape, ListedItems(sessions, user, invalid))
    /\ UNCHANGED <<sessions, registryVars, processVars>>

-----------------------------------------------------------------------------
(* BaseAgent.run, get_final_response and POST /api/chat *)

\* the event the runner records for the user's message
UserEvent(text) ==
    [author |-> "user", content |-> "ok", parts |-> "ok", text |-> text,
     calls |-> <<>>, responses |-> 0, lookup |-> "ok"]

\* the name of the agent the server runs
AgentName == "base_agent"

\* what a run of the runner yields: events of the agent, each final or not
RunnerOutputs(n) ==
    SeqsUpTo([event : {e \in Events : e.author = AgentName}, final : BOOLEAN], n)

\* what the session service and the runner do during one run
RunOutcomes == {"ok", "get_session_raises", "runner_raises"}

\* RunCalls that creates the session without looking at the lookup's result
RunCalls_AlwaysCreates(store, key, outcome) ==
    <<[call |-> "get_session", key |-> key]>>
    \o (IF outcome = "get_session_raises" THEN <<>>
        ELSE <<[call |-> "create_session", key |-> key],
               [call |-> "runner.run", key |-> key]>>)

\* BaseAgent.run: the calls it makes of the session service and the runner,
\* in order, each with the (user_id, session_id) it passes
RunCalls(store, key, outcome) ==
    <<[call |-> "get_session", key |-> key]>>
    \o (IF outcome = "get_session_raises" THEN <<>>
        ELSE (IF key \in DOMAIN store THEN <<>>
              ELSE <<[call |-> "create_session", key |-> key]>>)
             \o <<[call |-> "runner.run", key |-> key]>>)

\* StoreAfterRun that runs the runner without creating a missing session
StoreAfterRun_NoCreate(store, key, text, outcome, out) ==
    IF outcome # "ok" \/ key \notin DOMAIN store THEN store
    ELSE [store EXCEPT ![key] =
             @ \o <<UserEvent(text)>> \o [i \in DOMAIN out |-> out[i].event]]

\* BaseAgent.run: the store after the run. The session is created when the
\* lookup finds none; the runner records the message and the events it yields.
StoreAfterRun(store, key, text, outcome, out) ==
    IF outcome = "get_session_raises" THEN store
    ELSE LET created == IF key \in DOMAIN store THEN store ELSE (key :> <<>>) @@ store
         IN IF outcome = "runner_raises" THEN created
            ELSE [created EXCEPT ![key] =
                     @ \o <<UserEvent(text)>> \o [i \in DOMAIN out |-> out[i].event]]

\* get_final_response that keeps looking and returns the last such text
RECURSIVE get_final_response_LastFinal(_)
get_final_response_LastFinal(out) ==
    IF out = <<>> THEN [raised |-> FALSE, text |-> None]
    ELSE LET last == out[Len(out)]
             e == last.event
             rest == SubSeq(out, 1, Len(out) - 1)
         IN IF ~last.final THEN get_final_response_LastFinal(rest)
            ELSE IF e.content = "raises" THEN [raised |-> TRUE, text |-> None]
            ELSE IF e.content = "none" THEN get_final_response_LastFinal(rest)
            ELSE IF e.parts = "raises" THEN [raised |-> TRUE, text |-> None]
            ELSE IF e.parts = "empty" THEN get_final_response_LastFinal(rest)
            ELSE IF e.text = NoAttr THEN [raised |-> TRUE, text |-> None]
            ELSE [raised |-> FALSE, text |-> e.text]

\* BaseAgent.get_final_response: the first part's text of the first final
\* event with content parts; None when there is none.
RECURSIVE get_final_response(_)
get_final_response(out) ==
    IF out = <<>> THEN [raised |-> FALSE, text |-> None]
    ELSE LET first == out[1]
             e == first.event
         IN IF ~first.final THEN get_final_response(Tail(out))
            ELSE IF e.content = "raises" THEN [raised |-> TRUE, text |-> None]
            ELSE IF e.content = "none" THEN get_final_response(Tail(out))
            ELSE IF e.parts = "raises" THEN [raised |-> TRUE, text |-> None]
            ELSE IF e.parts = "empty" THEN get_final_response(Tail(out))
            ELSE IF e.text = NoAttr THEN [raised |-> TRUE, text |-> None]
            ELSE [raised |-> FALSE, text |-> e.text]

\* an exception that leaves the handler: the framework answers 500 without
\* a JSON body of the application
Unhandled == [status |-> 500, body |-> [x \in {} |-> ""], escaped |-> TRUE]

\* The response of POST /api/chat.
ChatResponse(outcome, out) ==
    IF outcome # "ok" THEN Unhandled
    ELSE LET response == get_final_response(out)
         IN IF response.raised THEN Unhandled
            ELSE JSONResponse(200,
                    [response |-> IF response.text \in {None, ""}
                                  THEN "No response from the agent."
                                  ELSE response.text])

StoredEvents(store) ==
    LET RECURSIVE Sum(_)
        Sum(ks) == IF ks = {} THEN 0
                   ELSE LET k == CHOOSE x \in ks : TRUE
                        IN Len(store[k]) + Sum(ks \ {k})
    IN Sum(DOMAIN store)

\* the events a run may still yield within the bounds
RunRoom ==
    LET room == MaxStored - StoredEvents(sessions) - 1
    IN IF room < 0 THEN 0 ELSE IF room > MaxRun THEN MaxRun ELSE room

chat(key, text, outcome, out) ==
    /\ StoredEvents(sessions) + 1 + Len(out) <= MaxStored
    /\ req' = [op |-> "chat", key |-> key, text |-> text,
               serviceRaises |-> outcome = "get_session_raises",
               outcome |-> outcome, out |-> out,
               existed |-> key \in DOMAIN sessions,
               calls |-> RunCalls(sessions, key, outcome)]
    /\ resp' = ChatResponse(outcome, out)
    /\ sessions' = StoreAfterRun(sessions, key, text, outcome, out)
    /\ UNCHANGED <<registryVars, processVars>>

\* agent.get_final_response(events) on a list of events
final_response(out) ==
    /\ req = NoRequest
    /\ req' = [op |-> "get_final_response", out |-> out,
               response |-> get_final_response(out)]
    /\ resp' = NoResponse
    /\ UNCHANGED <<sessions, registryVars, processVars>>

FinalInit ==
    /\ sessions = EmptyStore
    /\ req = NoRequest
    /\ resp = NoResponse
    /\ registry = ImportedRegistry
    /\ regResult = NoCall
    /\ succeeded = ImportedTypes
    /\ ProcessIdle

FinalNext == \E out \in RunnerOutputs(MaxEvents) : final_response(out)

FinalSpec == FinalInit /\ [][FinalNext]_vars

-----------------------------------------------------------------------------
(* The local server over a session service that starts empty *)

Init ==
    /\ sessions = EmptyStore
    /\ req = NoRequest
    /\ resp = NoResponse
    /\ registry = ImportedRegistry
    /\ regResult = NoCall
    /\ succeeded = ImportedTypes
    /\ ProcessIdle

Next ==
    \/ \E key \in Keys, text \in Texts, out \in RunnerOutputs(RunRoom) :
          chat(key, text, "ok", out)
    \/ \E key \in Keys, text \in Texts, outcome \in RunOutcomes \ {"ok"} :
          chat(key, text, outcome, <<>>)
    \/ \E key \in Keys, serviceRaises \in BOOLEAN : get_session_history(key, serviceRaises)
    \/ \E user \in UserIds, shape \in ListShapes, invalid \in SUBSET SessionIds :
          list_user_sessions(user, shape, invalid)

Spec == Init /\ [][Next]_vars

-----------------------------------------------------------------------------
(* The handlers of the server on one event loop: POST /api/chat, the      *)
(* WebSocket connections and the GET endpoints over one session service.  *)
(* A handler runs from one await to the next without another handler      *)
(* running: the chat handler has no await, a WebSocket handler awaits      *)
(* receive_text and each send_json.                                        *)

Connections == {"c1", "c2"}

Closed == [pc |-> "closed", key |-> <<"u1", "s1">>, pending |-> 0]

\* what the runner yields in these runs: text events of the agent
TextOutputs(n) ==
    SeqsUpTo([event : {e \in Events : /\ e.author = AgentName
                                      /\ e.content = "ok" /\ e.parts = "ok"
                                      /\ e.text \in Texts},
              final : BOOLEAN], n)

\* EnsureSession that creates the session without the lookup
EnsureSession_Unchecked(store, key) ==
    [calls |-> <<[call |-> "get_session", key |-> key],
                 [call |-> "create_session", key |-> key]>>,
     store |-> [k \in DOMAIN store \cup {key} |-> IF k = key THEN <<>> ELSE store[k]]]

\* `if not agent.get_session(user_id, session_id): agent.create_session(...)`
\* of the WebSocket handler; create_session of the in-memory service puts an
\* empty session under the key
EnsureSession(store, key) ==
    IF key \in DOMAIN store
    THEN [calls |-> <<[call |-> "get_session", key |-> key]>>, store |-> store]
    ELSE [calls |-> <<[call |-> "get_session", key |-> key],
                      [call |-> "create_session", key |-> key]>>,
          store |-> (key :> <<>>) @@ store]

\* a connection is opened: websocket.accept(), then await receive_text()
loop_connect(c, key) ==
    /\ handlers.conn[c].pc = "closed"
    /\ handlers' = [handlers EXCEPT !.conn[c] = [pc |-> "receiving", key |-> key, pending |-> 0]]
    /\ req' = [op |-> "ws_accept", key |-> key, conn |-> c]
    /\ UNCHANGED <<sessions, resp, registryVars, launch, built, cli, ws, printed, auth>>

\* receive_text returns on connection c: the handler runs up to its first
\* send_json, or back to receive_text when there is nothing to send
loop_message(c, text, outcome, out) ==
    /\ handlers.conn[c].pc = "receiving"
    /\ StoredEvents(sessions) + 1 + Len(out) <= MaxStored
    /\ LET key == handlers.conn[c].key
           e == IF outcome = "get_session_raises"
                THEN [calls |-> <<[call |-> "get_session", key |-> key]>>, store |-> sessions]
                ELSE EnsureSession(sessions, key)
       IN /\ req' = [op |-> "ws_message", key |-> key, conn |-> c, text |-> text,
                     outcome |-> outcome, out |-> out,
                     existed |-> key \in DOMAIN sessions,
                     calls |-> IF outcome = "get_session_raises" THEN e.calls
                               ELSE e.calls \o RunCalls(e.store, key, outcome)]
          /\ sessions' = StoreAfterRun(e.store, key, text, outcome, out)
          /\ handlers' =
               [handlers EXCEPT
                  !.conn[c] = IF outcome # "ok" THEN Closed
                              ELSE [pc |-> IF out = <<>> THEN "receiving" ELSE "sending",
                                    key |-> key, pending |-> Len(out)],
                  !.handled = IF outcome = "get_session_raises" THEN @ ELSE @ \cup {key}]
    /\ UNCHANGED <<resp, registryVars, launch, built, cli, ws, printed, auth>>

\* one send_json of connection c returns
loop_send(c) ==
    /\ handlers.conn[c].pc = "sending"
    /\ handlers' = [handlers EXCEPT
                      !.conn[c].pending = @ - 1,
                      !.conn[c].pc = IF handlers.conn[c].pending = 1
                                     THEN "receiving" ELSE "sending"]
    /\ req' = [op |-> "ws_send", key |-> handlers.conn[c].key, conn |-> c]
    /\ UNCHANGED <<sessions, resp, registryVars, launch, built, cli, ws, printed, auth>>

\* receive_text raises WebSocketDisconnect on connection c
loop_disconnect(c) ==
    /\ handlers.conn[c].pc = "receiving"
    /\ handlers' = [handlers EXCEPT !.conn[c] = Closed]
    /\ req' = [op |-> "ws_disconnect", key |-> handlers.conn[c].key, conn |-> c]
    /\ UNCHANGED <<sessions, resp, registryVars, launch, built, cli, ws, printed, auth>>

\* POST /api/chat: the handler has no await
loop_chat(key, text, outcome, out) ==
    /\ StoredEvents(sessions) + 1 + Len(out) <= MaxStored
    /\ req' = [op |-> "chat", key |-> key, text |-> text,
               serviceRaises |-> outcome = "get_session_raises",
               outcome |-> outcome, out |-> out,
               existed |-> key \in DOMAIN sessions,
               calls |-> RunCalls(sessions, key, outcome)]
    /\ resp' = ChatResponse(outcome, out)
    /\ sessions' = StoreAfterRun(sessions, key, text, outcome, out)
    /\ handlers' = [handlers EXCEPT
                      !.handled = IF outcome = "get_session_raises" THEN @ ELSE @ \cup {key}]
    /\ UNCHANGED <<registryVars, launch, built, cli, ws, printed, auth>>

LoopInit ==
    /\ sessions = EmptyStore
    /\ req = NoRequest
    /\ resp = NoResponse
    /\ registry = ImportedRegistry
    /\ regResult = NoCall
    /\ succeeded = ImportedTypes
    /\ launch = NotStarted
    /\ built = NotStarted
    /\ cli = NotStarted
    /\ ws = NotStarted
    /\ printed = NotStarted
    /\ auth = NotStarted
    /\ handlers = [conn |-> [c \in Connections |-> Closed], handled |-> {}]

LoopNext ==
    \/ \E c \in Connections, key \in Keys : loop_connect(c, key)
    \/ \E c \in Connections, out \in TextOutputs(RunRoom) :
          loop_message(c, "Hi", "ok", out)
    \/ \E c \in Connections, outcome \in RunOutcomes \ {"ok"} :
          loop_message(c, "Hi", outcome, <<>>)
    \/ \E c \in Connections : loop_send(c)
    \/ \E c \in Connections : loop_disconnect(c)
    \/ \E key \in Keys, out \in TextOutputs(RunRoom) : loop_chat(key, "Hi", "ok", out)
    \/ \E key \in Keys, outcome \in RunOutcomes \ {"ok"} : loop_chat(key, "Hi", outcome, <<>>)
    \/ \E key \in Keys, serviceRaises \in BOOLEAN : get_session_history(key, serviceRaises)
    \/ \E shape \in ListShapes : list_user_sessions("u1", shape, {})

LoopSpec == LoopInit /\ [][LoopNext]_vars

-----------------------------------------------------------------------------
(* Properties of the history endpoint *)

HistoryRequest == req.op = "history"
\* the request reached a session: the service answered and the session exists
HistoryOfSession ==
    /\ HistoryRequest
    /\ ~req.serviceRaises
    /\ req.key \in DOMAIN sessions
RequestedEvents == sessions[req.key]

ErrorResponse(status) ==
    /\ resp.status = status
    /\ "error" \in DOMAIN resp.body
    /\ "history" \notin DOMAIN resp.body

\* an attribute read outside the guarded text access, or a lookup of the
\* fallback, raises while the event is processed
RaisesOutsideGuard(e) ==
    \/ e.content = "raises"
    \/ e.parts = "raises"
    \/ e.lookup # "ok"
\* the first content part carries a text string
HasTextString(e) == e.content = "ok" /\ e.parts = "ok" /\ e.text \in Texts
\* the ways an event lacks content.parts[0].text without any read raising
LacksText(e) ==
    \/ e.content = "none"
    \/ e.content = "ok" /\ e.parts = "empty"
    \/ e.content = "ok" /\ e.parts = "ok" /\ e.text = NoAttr

Placeholders ==
    {"[Function Response]"} \cup
    {"[Function Call: " \o c[1] \o "]" : c \in CallLists \ {<<>>}}

Count(seq, P(_)) == Cardinality({i \in DOMAIN seq : P(seq[i])})
IsPlaceholder(r) == r.text \in Placeholders

\* C1: a history request for a session the service does not have is answered
\* 404 with an error field; a 200 (so also a 200 with an empty history) is
\* given only for a session that exists.
C1_MissingSessionIs404 ==
    (HistoryRequest /\ ~req.serviceRaises) =>
        /\ req.key \notin DOMAIN sessions => ErrorResponse(404)
        /\ resp.status = 404 => req.key \notin DOMAIN sessions
        /\ resp.status = 200 =>
              /\ req.key \in DOMAIN sessions
              /\ "history" \in DOMAIN resp.body

C1_Witness ==
    /\ HistoryRequest
    /\ ~req.serviceRaises
    /\ req.key \notin DOMAIN sessions
    /\ DOMAIN sessions # {}
    /\ resp.status = 404

SpecifiedText(e) ==
    IF HasTextString(e) THEN e.text
    ELSE IF e.calls # <<>> THEN "[Function Call: " \o e.calls[1] \o "]"
    ELSE IF e.responses > 0 THEN "[Function Response]"
    ELSE None
SpecifiedTexts(events) ==
    LET emitting == SelectSeq(events, LAMBDA e : SpecifiedText(e) # None)
    IN [i \in DOMAIN emitting |-> SpecifiedText(emitting[i])]

\* C3: the text of each event is the first part's text if present, otherwise
\* the placeholder of the first function call if the event carries function
\* calls, otherwise the function-response placeholder if it carries function
\* responses, otherwise the event gives no record.
C3_ExtractionOrder ==
    (HistoryOfSession /\ resp.status = 200) =>
        [i \in DOMAIN resp.body.history |-> resp.body.history[i].text]
            = SpecifiedTexts(RequestedEvents)

\* the events the extraction gives a record
Emitting(events) == SelectSeq(events, LAMBDA e : EventText(e).text # None)

\* C4: a record's sender is 'user' exactly when the event's author is
\* 'user', and 'agent' for every other author, a missing one included.
C4_SenderUserOrAgent ==
    (HistoryOfSession /\ resp.status = 200) =>
        LET history == resp.body.history
            emitting == Emitting(RequestedEvents)
        IN /\ Len(history) = Len(emitting)
           /\ \A i \in DOMAIN history :
                 /\ history[i].sender \in {"user", "agent"}
                 /\ history[i].sender = "user" <=> emitting[i].author = "user"

C4_Witness ==
    /\ HistoryOfSession
    /\ resp.status = 200
    /\ Len(RequestedEvents) = 2
    /\ RequestedEvents[1].author = None
    /\ RequestedEvents[2].author = "user"
    /\ Len(resp.body.history) = 2
    /\ resp.body.history[1].sender = "agent"
    /\ resp.body.history[2].sender = "user"

\* C5: the history holds one record for each event with a text
\* representation, in the order of the events, never more records than
\* events; one user event with text 'Hi' gives [{sender: user, text: Hi}].
C5_OrderPreservingImage ==
    (HistoryOfSession /\ resp.status = 200) =>
        LET history == resp.body.history
            emitting == Emitting(RequestedEvents)
        IN /\ Len(history) <= Len(RequestedEvents)
           /\ history = [i \in DOMAIN emitting |->
                            [sender |-> IF emitting[i].author = "user"
                                        THEN "user" ELSE "agent",
                             text |-> EventText(emitting[i]).text]]
           /\ (/\ Len(RequestedEvents) = 1
               /\ RequestedEvents[1].author = "user"
               /\ HasTextString(RequestedEvents[1])
               /\ RequestedEvents[1].text = "Hi")
                 => history = <<[sender |-> "user", text |-> "Hi"]>>

C5_Witness ==
    /\ HistoryOfSession
    /\ resp.status = 200
    /\ Len(RequestedEvents) = 2
    /\ Len(resp.body.history) = 2
    /\ resp.body.history[1] = [sender |-> "user", text |-> "Hi"]
    /\ resp.body.history[2] = [sender |-> "agent", text |-> "[Function Response]"]

\* C6: a failure outside the guarded text access, in any event, makes the
\* whole request a 500 with an error field and no history; a first part
\* without a text attribute alone only leaves its event without a text.
C6_FailureOutsideGuardIs500 ==
    HistoryOfSession =>
        IF \E i \in DOMAIN RequestedEvents : RaisesOutsideGuard(RequestedEvents[i])
        THEN ErrorResponse(500)
        ELSE /\ resp.status = 200
             /\ Count(resp.body.history, LAMBDA r : r.text \in Texts)
                   = Count(RequestedEvents, HasTextString)

C6_Witness ==
    /\ HistoryOfSession
    /\ Len(RequestedEvents) = 2
    /\ HasTextString(RequestedEvents[1])
    /\ RequestedEvents[2].text = NoAttr
    /\ RequestedEvents[2].lookup = "calls_raise"
    /\ resp.status = 500

-----------------------------------------------------------------------------
(* Properties of the server's endpoints *)

\* an exception is raised while the handler reads the events of the session
ParsingRaises ==
    /\ HistoryOfSession
    /\ \E i \in DOMAIN RequestedEvents : RaisesOutsideGuard(RequestedEvents[i])

\* C7: in the session list, session history and chat endpoints an exception
\* of the session service, or one raised while the events are parsed, is
\* answered by the handler itself with a 500 whose JSON body has an error
\* field; no exception leaves the handler.
C7_ExceptionsAnsweredPerEndpoint ==
    (req.op \in {"list", "history", "chat"} /\ (req.serviceRaises \/ ParsingRaises))
        => /\ ~resp.escaped
           /\ resp.status = 500
           /\ "error" \in DOMAIN resp.body

-----------------------------------------------------------------------------
(* Properties of BaseAgent.run and get_final_response *)

CallsOf(calls, name) == {i \in DOMAIN calls : calls[i].call = name}

\* C23: BaseAgent.run looks the session up once, creates it if and only if
\* the lookup finds none, and after that invokes the runner once, each with
\* the user_id and session_id it was given; a session that exists is not
\* created again.
C23_LookupThenCreateThenRun ==
    req.op = "chat" =>
        /\ Cardinality(CallsOf(req.calls, "get_session")) = 1
        /\ req.calls[1].call = "get_session"
        /\ \A i \in DOMAIN req.calls : req.calls[i].key = req.key
        /\ ~req.serviceRaises =>
              /\ Cardinality(CallsOf(req.calls, "runner.run")) = 1
              /\ req.calls[Len(req.calls)].call = "runner.run"
              /\ IF req.existed
                 THEN CallsOf(req.calls, "create_session") = {}
                 ELSE CallsOf(req.calls, "create_session") = {2}
              /\ req.key \in DOMAIN sessions

C23_Witness ==
    /\ req.op = "chat"
    /\ req.existed
    /\ req.outcome = "ok"
    /\ req.calls = <<[call |-> "get_session", key |-> req.key],
                     [call |-> "runner.run", key |-> req.key]>>
    /\ Len(sessions[req.key]) >= 2

\* a final response whose content has parts
Qualifies(o) == o.final /\ o.event.content = "ok" /\ o.event.parts = "ok"

\* an event whose attributes get_final_response cannot read
Unreadable(o) ==
    o.final /\ (\/ o.event.content = "raises"
                \/ o.event.content = "ok" /\ o.event.parts = "raises"
                \/ Qualifies(o) /\ o.event.text = NoAttr)

\* C24: get_final_response returns the first part's text of the first event
\* of the list that is a final response with content parts, whatever the
\* events after it are, and None when no event is one.
C24_FirstFinalResponse ==
    (req.op = "get_final_response" /\ \A i \in DOMAIN req.out : ~Unreadable(req.out[i])) =>
        LET qualifying == {i \in DOMAIN req.out : Qualifies(req.out[i])} IN
        /\ ~req.response.raised
        /\ qualifying = {} => req.response.text = None
        /\ \A i \in qualifying :
              (\A j \in qualifying : i <= j) => req.response.text = req.out[i].event.text

C24_Witness ==
    /\ req.op = "get_final_response"
    /\ Len(req.out) = 2
    /\ Qualifies(req.out[1]) /\ req.out[1].event.text = "Hi"
    /\ Qualifies(req.out[2]) /\ req.out[2].event.text = None
    /\ req.response = [raised |-> FALSE, text |-> "Hi"]

-----------------------------------------------------------------------------
(* Properties of the session list *)

\* the items of the listing that carry a string id
WithStringId(items) == {i \in DOMAIN items : items[i] # NoAttr}

\* C25: GET /api/sessions/{user_id} answers 200 with the ids of the items
\* that carry a string id, in the order of the session service's result,
\* for a plain list and for a ('sessions', list) pair alike; items without
\* a string id are left out, and None or a result of another shape gives
\* 200 with an empty list.
C25_ListedIdsInOrder ==
    (req.op = "list" /\ req.shape # "raises") =>
        /\ resp.status = 200
        /\ ~resp.escaped
        /\ DOMAIN resp.body = {"sessions"}
        /\ IF req.shape \in {"list", "pair"}
           THEN LET valid == WithStringId(req.items) IN
                /\ Len(resp.body.sessions) = Cardinality(valid)
                /\ \A i \in valid :
                      resp.body.sessions[Cardinality({j \in valid : j <= i})] = req.items[i]
           ELSE resp.body.sessions = <<>>

C25_Witness ==
    /\ req.op = "list"
    /\ req.shape = "pair"
    /\ req.items = <<NoAttr, "s2">>
    /\ resp.body.sessions = <<"s2">>

-----------------------------------------------------------------------------
(* Properties of the handlers on the event loop *)

\* C27: however chat requests and WebSocket messages for one (user_id,
\* session_id) interleave, a session is created only when there is none:
\* no handler runs between a lookup and the creation after it, so a session
\* that exists keeps its events and is never put anew.
C27_SessionCreatedAtMostOnce ==
    /\ [][(req'.op \in {"chat", "ws_message"}
           /\ CallsOf(req'.calls, "create_session") # {})
            => /\ req'.key \notin DOMAIN sessions
               /\ Cardinality(CallsOf(req'.calls, "create_session")) = 1]_vars
    /\ [][\A k \in DOMAIN sessions :
            /\ k \in DOMAIN sessions'
            /\ Len(sessions'[k]) >= Len(sessions[k])
            /\ SubSeq(sessions'[k], 1, Len(sessions[k])) = sessions[k]]_vars

C27_Witness ==
    /\ handlers.conn["c1"].pc = "sending"
    /\ handlers.conn["c1"].key = <<"u1", "s1">>
    /\ handlers.conn["c2"].pc = "receiving"
    /\ handlers.conn["c2"].key = <<"u1", "s1">>
    /\ req.op = "chat"
    /\ req.key = <<"u1", "s1">>
    /\ req.existed
    /\ CallsOf(req.calls, "create_session") = {}
    /\ Len(sessions[<<"u1", "s1">>]) = 3

\* C28: after a chat request or a WebSocket message for (user_id,
\* session_id) has been handled the session stays: a later GET of its
\* history is never answered 404, and is answered 200 whenever the session
\* service does not fail, whatever was handled in between.
C28_HandledSessionStays ==
    /\ handlers.handled \subseteq DOMAIN sessions
    /\ (req.op = "history" /\ req.key \in handlers.handled) =>
          /\ resp.status # 404
          /\ ~req.serviceRaises => resp.status = 200 /\ "history" \in DOMAIN resp.body

C28_Witness ==
    /\ req.op = "history"
    /\ req.key = <<"u1", "s2">>
    /\ handlers.handled = Keys
    /\ handlers.conn["c1"].pc = "closed"
    /\ handlers.conn["c2"].pc = "closed"
    /\ resp.status = 200

====
